---- MODULE Spec2Model ----
(***************************************************************************)
(* Model of src/config-gen.py: a batch generator that reads a delimiter-   *)
(* separated parameter file, loads one template, and writes one rendered   *)
(* configuration file per data row.                                        *)
(*                                                                         *)
(* Text is modelled as a sequence of tokens.  A token is the delimiter or  *)
(* an unquoted word; a line is a sequence of tokens; a field value is the  *)
(* sequence of word tokens between two delimiters (the empty string is     *)
(* << >>).  Quoting is not used by any input.  Printing to standard output *)
(* is taken to succeed.                                                    *)
(***************************************************************************)
EXTENDS Integers, Sequences, FiniteSets, TLC

\* -------------------------------------------------------------------------
\* Bounds and inputs
\* -------------------------------------------------------------------------

\* Largest number of lines that follow the header in the parameter file.
MaxRows == 3

Delim == ";"

\* Python's None.  It is not a string: no token sequence read from a file
\* equals it.
PyNone == <<"<None>">>

\* The designated key looked up by the filename derivation.
HostnameKey == <<"hostname">>

HeaderLines ==
    { <<"ip", ";", "hostname">>,
      <<"ip">> }

DataLines ==
    { <<"a", ";", "r1">>,            \* full record
      <<"a", ";", "r2">>,            \* full record, other hostname
      <<"a", ";">>,                  \* hostname present and empty
      <<"a">>,                       \* short record
      <<"a", ";", "r1", ";", "a">>,  \* long record
      << >> }                        \* blank line

RECURSIVE SeqsUpTo(_, _)
SeqsUpTo(S, n) ==
    IF n = 0 THEN { << >> }
    ELSE LET shorter == SeqsUpTo(S, n - 1)
         IN  shorter \cup { Append(s, x) : s \in { t \in shorter : Len(t) = n - 1 }, x \in S }

\* Contents of the parameter file: nothing at all, or a header line followed
\* by at most MaxRows lines.
FileContents ==
    { << >> } \cup { <<h>> \o d : h \in HeaderLines, d \in SeqsUpTo(DataLines, MaxRows) }

CsvFiles ==
    { [exists |-> FALSE, readable |-> FALSE, lines |-> << >>],
      [exists |-> TRUE,  readable |-> FALSE, lines |-> << >>] }
    \cup { [exists |-> TRUE, readable |-> TRUE, lines |-> l] : l \in FileContents }

\* -------------------------------------------------------------------------
\* csv.reader / csv.DictReader as used by read_csv_to_dict
\* -------------------------------------------------------------------------

\* Position of the first delimiter of a line, 0 if there is none.
FirstDelim(s) ==
    IF \E p \in 1..Len(s) : s[p] = Delim
    THEN CHOOSE p \in 1..Len(s) : s[p] = Delim /\ \A q \in 1..(p - 1) : s[q] # Delim
    ELSE 0

RECURSIVE SplitFields(_)
SplitFields(s) ==
    LET p == FirstDelim(s)
    IN  IF p = 0 THEN <<s>>
        ELSE <<SubSeq(s, 1, p - 1)>> \o SplitFields(SubSeq(s, p + 1, Len(s)))

\* csv.reader: a blank line yields the empty list, any other line the list
\* of its delimiter-separated fields.
csv_reader_row(line) ==
    IF line = << >> THEN << >> ELSE SplitFields(line)

\* One dictionary of csv.DictReader: dict(zip(fieldnames, row)), surplus
\* values under the key None, missing values set to None.
DictRow(fieldnames, row) ==
    LET lf == Len(fieldnames)
        lr == Len(row)
        m  == IF lf < lr THEN lf ELSE lr
        keys == { fieldnames[j] : j \in 1..lf } \cup (IF lf < lr THEN { PyNone } ELSE {})
        Last(k) == CHOOSE j \in 1..lf : fieldnames[j] = k /\ \A q \in (j + 1)..lf : fieldnames[q] # k
    IN  [ k \in keys |->
            IF k = PyNone /\ lf < lr THEN SubSeq(row, lf + 1, lr)
            ELSE IF Last(k) <= m THEN row[Last(k)]
            ELSE PyNone ]

\* Variant: the rows are collected in reverse order.
RECURSIVE DictRowsReversed(_, _)
DictRowsReversed(fieldnames, lines) ==
    IF lines = << >> THEN << >>
    ELSE LET row == csv_reader_row(Head(lines))
         IN  IF row = << >> THEN DictRowsReversed(fieldnames, Tail(lines))
             ELSE DictRowsReversed(fieldnames, Tail(lines)) \o <<DictRow(fieldnames, row)>>

RECURSIVE DictRows(_, _)
DictRows(fieldnames, lines) ==
    IF lines = << >> THEN << >>
    ELSE LET row == csv_reader_row(Head(lines))
         IN  IF row = << >> THEN DictRows(fieldnames, Tail(lines))
             ELSE <<DictRow(fieldnames, row)>> \o DictRows(fieldnames, Tail(lines))

\* list(csv.DictReader(file, delimiter)).
DictReader(lines) ==
    IF lines = << >> THEN << >>
    ELSE DictRows(csv_reader_row(Head(lines)), Tail(lines))

\* Variant: the except clause raises a different kind of error.
WrapErrorOther(kind) == "RuntimeError"

\* The except clause of read_csv_to_dict: whatever was raised inside the try
\* block leaves as a ValueError.
WrapError(kind) == "ValueError"

\* read_csv_to_dict: the outcome is a returned list or a raised error.
read_csv_to_dict(file) ==
    IF ~file.exists
    THEN [ok |-> FALSE, kind |-> "FileNotFoundError", cause |-> "not found", rows |-> << >>]
    ELSE IF ~file.readable
    THEN [ok |-> FALSE, kind |-> WrapError("OSError"), cause |-> "read error", rows |-> << >>]
    ELSE LET config_parameters == DictReader(file.lines)
         IN  IF config_parameters = << >>
             THEN [ok |-> FALSE, kind |-> WrapError("ValueError"), cause |-> "empty", rows |-> << >>]
             ELSE [ok |-> TRUE, kind |-> "none", cause |-> "none", rows |-> config_parameters]

\* -------------------------------------------------------------------------
\* Filename derivation and rendering
\* -------------------------------------------------------------------------

Digits == <<"0", "1", "2", "3", "4", "5", "6", "7", "8", "9">>

\* Decimal text of a natural number, as the f-string formats it.
RECURSIVE ItoA(_)
ItoA(n) ==
    IF n < 10 THEN <<Digits[n + 1]>>
    ELSE ItoA(n \div 10) \o <<Digits[(n % 10) + 1]>>

\* str() of a field value inside an f-string.
Str(v) == IF v = PyNone THEN <<"None">> ELSE v

\* dict.get(key, default): the default is used only when the key is absent.
DictGet(parameter, key, default) ==
    IF key \in DOMAIN parameter THEN parameter[key] ELSE default

\* hostname = parameter.get("hostname", f"config_{i}")
\* config_filename = f"{hostname}.cfg"
ConfigFilename(parameter, idx) ==
    Str(DictGet(parameter, HostnameKey, <<"config_">> \o ItoA(idx))) \o <<".cfg">>

\* template.render(parameter): the text depends on the row alone.
Render(parameter) == [text |-> parameter, complete |-> TRUE]

\* What open(path, "w") leaves behind when the write that follows fails.
Truncated(parameter) == [text |-> parameter, complete |-> FALSE]

\* The output directory after name has been (re)written with content.
WriteFile(fs, name, content) ==
    [ n \in (DOMAIN fs) \cup { name } |-> IF n = name THEN content ELSE fs[n] ]

\* -------------------------------------------------------------------------
\* State
\* -------------------------------------------------------------------------

VARIABLES
    pc,                 \* stage of the run
    csvFile,            \* the parameter file on disk
    config_parameters,  \* rows returned by read_csv_to_dict
    readResult,         \* outcome of read_csv_to_dict
    i,                  \* 1-based index of the next row of the loop
    files,              \* output directory: filename -> content
    calls,              \* render / open / write calls made so far, in order
    stdout,             \* lines printed so far, in order
    exitStatus,         \* process exit status
    raised,             \* exception that left generate_configurations
    failedStage         \* stage whose error reached main's handler

vars == <<pc, csvFile, config_parameters, readResult, i, files, calls, stdout,
          exitStatus, raised, failedStage>>

Line(kind, idx, total, name) ==
    [kind |-> kind, idx |-> idx, total |-> total, name |-> name]

Call(op, row, name, ok) == [op |-> op, row |-> row, name |-> name, ok |-> ok]

NoName == << >>

NoResult == [ok |-> FALSE, kind |-> "none", cause |-> "none", rows |-> << >>]

Init ==
    /\ pc = "Start"
    /\ csvFile \in CsvFiles
    /\ config_parameters = << >>
    /\ readResult = NoResult
    /\ i = 1
    /\ files = << >>
    /\ calls = << >>
    /\ stdout = << >>
    /\ exitStatus = 0
    /\ raised = "none"
    /\ failedStage = "none"

\* Variant: the handler prints the error and forgets sys.exit(1).
AbortNoExit(stage, kind, out) ==
    /\ pc' = "Failed"
    /\ raised' = kind
    /\ failedStage' = stage
    /\ exitStatus' = exitStatus
    /\ stdout' = Append(out, Line("Error", 0, 0, NoName))

\* main's handler: except Exception -> print("Error: ...") ; sys.exit(1)
Abort(stage, kind, out) ==
    /\ pc' = "Failed"
    /\ raised' = kind
    /\ failedStage' = stage
    /\ exitStatus' = 1
    /\ stdout' = Append(out, Line("Error", 0, 0, NoName))

\* main() calls generate_configurations.
Start ==
    /\ pc = "Start"
    /\ pc' = "ReadInput"
    /\ UNCHANGED <<csvFile, config_parameters, readResult, i, files, calls, stdout,
                   exitStatus, raised, failedStage>>

\* STEP 1: read and validate the CSV data.
ReadInput ==
    /\ pc = "ReadInput"
    /\ LET r   == read_csv_to_dict(csvFile)
           out == Append(stdout, Line("Reading", 0, 0, NoName))
       IN  /\ readResult' = r
           /\ IF r.ok
              THEN /\ config_parameters' = r.rows
                   /\ stdout' = Append(out, Line("Found", 0, Len(r.rows), NoName))
                   /\ pc' = "LoadTemplate"
                   /\ UNCHANGED <<exitStatus, raised, failedStage>>
              ELSE /\ Abort("ReadInput", r.kind, out)
                   /\ UNCHANGED config_parameters
    /\ UNCHANGED <<csvFile, i, files, calls>>

TemplateOutcomes == { "ok", "TemplateNotFound", "TemplateSyntaxError" }

\* except jinja2.TemplateNotFound: raise FileNotFoundError; any other error
\* of get_template propagates as it is.
TemplateError(t) == IF t = "TemplateNotFound" THEN "FileNotFoundError" ELSE t

\* STEP 2: create the environment and load the template.
LoadTemplate ==
    /\ pc = "LoadTemplate"
    /\ \E t \in TemplateOutcomes :
         LET out == Append(stdout, Line("Creating", 0, 0, NoName))
         IN  IF t = "ok"
             THEN /\ pc' = "PrepareOutputDir"
                  /\ stdout' = out
                  /\ UNCHANGED <<exitStatus, raised, failedStage>>
             ELSE Abort("LoadTemplate", TemplateError(t), out)
    /\ UNCHANGED <<csvFile, config_parameters, readResult, i, files, calls>>

\* STEP 3: ensure_output_directory; mkdir may raise.
PrepareOutputDir ==
    /\ pc = "PrepareOutputDir"
    /\ \E mkdirOk \in BOOLEAN :
         LET out == Append(stdout, Line("Ensuring", 0, 0, NoName))
         IN  IF mkdirOk
             THEN /\ pc' = "GenerateAll"
                  /\ stdout' = Append(out, Line("Generating", 0, 0, NoName))
                  /\ UNCHANGED <<exitStatus, raised, failedStage>>
             ELSE Abort("PrepareOutputDir", "OSError", out)
    /\ UNCHANGED <<csvFile, config_parameters, readResult, i, files, calls>>

RowOutcomes == { "ok", "render_error", "open_error", "write_error" }

\* Variant: the progress line counts the artifacts created so far.
ProgressIndexCompleted(idx, out) ==
    Cardinality({ k \in DOMAIN out : out[k].kind = "Created" }) + 1

\* The index printed in front of the total by the progress line.
ProgressIndex(idx, out) == idx

\* Variant: a failed render is tried a second time.
RowCallsRetry(outcome, idx, name) ==
    IF outcome = "render_error"
    THEN <<Call("render", idx, NoName, FALSE), Call("render", idx, NoName, FALSE)>>
    ELSE IF outcome = "open_error"
    THEN <<Call("render", idx, NoName, TRUE), Call("open", idx, name, FALSE)>>
    ELSE <<Call("render", idx, NoName, TRUE), Call("open", idx, name, TRUE),
           Call("write", idx, name, outcome = "ok")>>

\* The render, open and write calls one iteration makes for its outcome.
RowCalls(outcome, idx, name) ==
    IF outcome = "render_error" THEN <<Call("render", idx, NoName, FALSE)>>
    ELSE IF outcome = "open_error"
    THEN <<Call("render", idx, NoName, TRUE), Call("open", idx, name, FALSE)>>
    ELSE <<Call("render", idx, NoName, TRUE), Call("open", idx, name, TRUE),
           Call("write", idx, name, outcome = "ok")>>

\* Variant: the output file is opened before the template is rendered.
RowFilesOpenFirst(outcome, fs, parameter, name) ==
    IF outcome = "ok" THEN WriteFile(fs, name, Render(parameter))
    ELSE IF outcome \in { "write_error", "render_error" }
    THEN WriteFile(fs, name, Truncated(parameter))
    ELSE fs

\* The output directory after one iteration.
RowFiles(outcome, fs, parameter, name) ==
    IF outcome = "ok" THEN WriteFile(fs, name, Render(parameter))
    ELSE IF outcome = "write_error" THEN WriteFile(fs, name, Truncated(parameter))
    ELSE fs

\* The line one iteration prints.
RowLine(outcome, idx, total, name, out) ==
    IF outcome = "ok" THEN Line("Created", ProgressIndex(idx, out), total, name)
    ELSE Line("RowError", idx, 0, NoName)

\* The row the loop picks for index idx.
RowAt(rows, idx) == rows[idx]

\* Variant: the loop has no except clause, a row's error reaches main.
GenerateRowAbort ==
    /\ pc = "GenerateAll"
    /\ i <= Len(config_parameters)
    /\ \E outcome \in RowOutcomes :
         LET parameter == RowAt(config_parameters, i)
             name      == ConfigFilename(parameter, i)
         IN  /\ calls' = calls \o RowCalls(outcome, i, name)
             /\ files' = RowFiles(outcome, files, parameter, name)
             /\ IF outcome = "ok"
                THEN /\ stdout' = Append(stdout,
                                         RowLine(outcome, i, Len(config_parameters), name, stdout))
                     /\ i' = i + 1
                     /\ UNCHANGED <<pc, exitStatus, raised, failedStage>>
                ELSE /\ Abort("GenerateAll", "Exception", stdout)
                     /\ UNCHANGED i
    /\ UNCHANGED <<csvFile, config_parameters, readResult>>

\* STEP 4, one iteration of the loop: the try body and its except clause.
GenerateRow ==
    /\ pc = "GenerateAll"
    /\ i <= Len(config_parameters)
    /\ \E outcome \in RowOutcomes :
         LET parameter == RowAt(config_parameters, i)
             name      == ConfigFilename(parameter, i)
         IN  /\ calls' = calls \o RowCalls(outcome, i, name)
             /\ files' = RowFiles(outcome, files, parameter, name)
             /\ stdout' = Append(stdout,
                                 RowLine(outcome, i, Len(config_parameters), name, stdout))
    /\ i' = i + 1
    /\ UNCHANGED <<pc, csvFile, config_parameters, readResult, exitStatus, raised,
                   failedStage>>

\* The loop is exhausted: print the closing line, return to main, exit.
Finish ==
    /\ pc = "GenerateAll"
    /\ i > Len(config_parameters)
    /\ pc' = "Done"
    /\ stdout' = Append(stdout, Line("Completed", 0, 0, NoName))
    /\ UNCHANGED <<csvFile, config_parameters, readResult, i, files, calls,
                   exitStatus, raised, failedStage>>

Next ==
    \/ Start
    \/ ReadInput
    \/ LoadTemplate
    \/ PrepareOutputDir
    \/ GenerateRow
    \/ Finish

Spec == Init /\ [][Next]_vars

\* The program runs to completion: some step is taken whenever one is enabled.
FairSpec == Spec /\ WF_vars(Next)

\* -------------------------------------------------------------------------
\* Vocabulary of the properties
\* -------------------------------------------------------------------------

N == Len(config_parameters)

\* Row r had a render, open or write call that raised.
RowFailed(r) == \E k \in DOMAIN calls : calls[k].row = r /\ ~calls[k].ok

\* Row r's artifact was written to the end.
RowSucceeded(r) ==
    \E k \in DOMAIN calls : calls[k].row = r /\ calls[k].op = "write" /\ calls[k].ok

CallsOf(r, op) == { k \in DOMAIN calls : calls[k].row = r /\ calls[k].op = op }

LinesOf(kind, r) == { k \in DOMAIN stdout : stdout[k].kind = kind /\ stdout[k].idx = r }

HasLine(kind) == \E k \in DOMAIN stdout : stdout[k].kind = kind

LastLine == stdout[Len(stdout)]

\* -------------------------------------------------------------------------
\* C1  A per-row failure never aborts the batch: every row that did not fail
\*     has its artifact written, every failing row is reported with its
\*     1-based index, the loop only ever continues or ends in Done, and the
\*     exit status stays 0.
\* -------------------------------------------------------------------------
C1_RowsSettled ==
    /\ pc \in { "GenerateAll", "Done" } =>
         /\ exitStatus = 0
         /\ raised = "none"
         /\ ~HasLine("Error")
    /\ pc = "Done" => i = N + 1
    /\ pc \in { "GenerateAll", "Done" } =>
         \A r \in 1..(i - 1) :
            IF RowFailed(r)
            THEN LinesOf("RowError", r) # {}
            ELSE /\ \E k \in CallsOf(r, "write") :
                       /\ calls[k].ok
                       /\ calls[k].name = ConfigFilename(config_parameters[r], r)
                 /\ ConfigFilename(config_parameters[r], r) \in DOMAIN files

C1_PartialFailure ==
    /\ []C1_RowsSettled
    /\ [][pc = "GenerateAll" => pc' \in { "GenerateAll", "Done" }]_vars

C1_Witness ==
    /\ pc = "Done"
    /\ N = 3
    /\ RowFailed(2) /\ RowSucceeded(1) /\ RowSucceeded(3)
    /\ exitStatus = 0

\* -------------------------------------------------------------------------
\* C2  The artifact of row i is named "<hostname>.cfg" when the row has a
\*     non-empty hostname, and "config_<i>.cfg" otherwise (key absent, or
\*     present with an empty or unset value).
\* -------------------------------------------------------------------------
ClaimedFilename(parameter, idx) ==
    IF HostnameKey \in DOMAIN parameter /\ parameter[HostnameKey] \notin { << >>, PyNone }
    THEN parameter[HostnameKey] \o <<".cfg">>
    ELSE <<"config_">> \o ItoA(idx) \o <<".cfg">>

C2_FilenameDerivation ==
    \A k \in DOMAIN calls :
        calls[k].op = "open" =>
            calls[k].name = ClaimedFilename(config_parameters[calls[k].row], calls[k].row)

\* -------------------------------------------------------------------------
\* C3  As stated: Failed is entered from ReadInput or LoadTemplate only.
\* -------------------------------------------------------------------------
C3_FailedFromReadOrLoadOnly ==
    [][(pc' = "Failed" /\ pc # "Failed") => pc \in { "ReadInput", "LoadTemplate" }]_vars

\* C3  As amended: Failed is entered from ReadInput, LoadTemplate or
\*     PrepareOutputDir only, never from GenerateAll.
C3_FailedFromPreLoopOnly ==
    [][(pc' = "Failed" /\ pc # "Failed") =>
          pc \in { "ReadInput", "LoadTemplate", "PrepareOutputDir" }]_vars

C3_Witness ==
    /\ pc = "Failed"
    /\ failedStage = "PrepareOutputDir"

\* -------------------------------------------------------------------------
\* C4  A failure of ReadInput, LoadTemplate or PrepareOutputDir is fatal:
\*     the run stops at that stage, no later stage is entered, no row is
\*     rendered and no artifact written, an error message is printed and
\*     the exit status is non-zero.
\* -------------------------------------------------------------------------
C4_PreLoopFailureFatal ==
    /\ (pc \notin { "Start", "ReadInput" } /\ ~readResult.ok) =>
          (pc = "Failed" /\ failedStage = "ReadInput")
    /\ raised # "none" => pc = "Failed"
    /\ pc = "Failed" =>
          /\ exitStatus # 0
          /\ raised # "none"
          /\ failedStage \in { "ReadInput", "LoadTemplate", "PrepareOutputDir" }
          /\ LastLine.kind = "Error"
          /\ calls = << >>
          /\ files = << >>
          /\ i = 1
          /\ ~HasLine("Generating") /\ ~HasLine("Created") /\ ~HasLine("Completed")
          /\ failedStage = "ReadInput" => ~HasLine("Creating")
          /\ failedStage \in { "ReadInput", "LoadTemplate" } => ~HasLine("Ensuring")

C4_Witness ==
    /\ pc = "Failed"
    /\ failedStage = "LoadTemplate"
    /\ raised = "FileNotFoundError"
    /\ exitStatus = 1

\* -------------------------------------------------------------------------
\* C5  Reading a path that does not exist fails with FileNotFoundError;
\*     reading an existing empty or header-only file fails with ValueError;
\*     an empty list of rows is never returned.
\* -------------------------------------------------------------------------
C5_ReadErrors ==
    pc \notin { "Start", "ReadInput" } =>
        /\ ~csvFile.exists =>
              (~readResult.ok /\ readResult.kind = "FileNotFoundError")
        /\ (csvFile.exists /\ csvFile.readable /\ Len(csvFile.lines) <= 1) =>
              (~readResult.ok /\ readResult.kind = "ValueError")
        /\ readResult.ok => readResult.rows # << >>
        /\ ~readResult.ok => (pc = "Failed" /\ raised = readResult.kind)

C5_Witness ==
    /\ pc = "Failed"
    /\ csvFile.exists /\ csvFile.readable
    /\ Len(csvFile.lines) = 1
    /\ readResult.kind = "ValueError"

\* -------------------------------------------------------------------------
\* C6  No two rows write to the same path, and at Done the output directory
\*     holds one completely written file per successfully processed row.
\* -------------------------------------------------------------------------
C6_OneFilePerRow ==
    /\ \A a, b \in DOMAIN calls :
          (calls[a].op = "open" /\ calls[b].op = "open" /\ a # b) =>
              calls[a].name # calls[b].name
    /\ pc = "Done" =>
          Cardinality({ n \in DOMAIN files : files[n].complete }) =
              Cardinality({ r \in 1..N : RowSucceeded(r) })

\* -------------------------------------------------------------------------
\* C7  As stated: each written artifact, and no other row, has one line
\*     "[completed/total] Created: name" where completed counts the
\*     artifacts generated so far.
\* -------------------------------------------------------------------------
CreatedUpTo(k) == Cardinality({ j \in 1..k : stdout[j].kind = "Created" })

C7_CompletedCount ==
    /\ \A k \in DOMAIN stdout :
          stdout[k].kind = "Created" =>
              /\ stdout[k].total = N
              /\ stdout[k].idx = CreatedUpTo(k)
              /\ \E r \in 1..(i - 1) :
                    /\ RowSucceeded(r)
                    /\ stdout[k].name = ConfigFilename(config_parameters[r], r)
    /\ CreatedUpTo(Len(stdout)) = Cardinality({ r \in 1..(i - 1) : RowSucceeded(r) })

\* C7  As amended: the first number of the line is the row's 1-based
\*     position in the ParameterSet.
C7_RowIndex ==
    /\ \A k \in DOMAIN stdout :
          stdout[k].kind = "Created" =>
              /\ stdout[k].total = N
              /\ \E r \in 1..(i - 1) :
                    /\ RowSucceeded(r)
                    /\ stdout[k].idx = r
                    /\ stdout[k].name = ConfigFilename(config_parameters[r], r)
    /\ \A r \in 1..(i - 1) :
          Cardinality(LinesOf("Created", r)) = (IF RowSucceeded(r) THEN 1 ELSE 0)

C7_Witness ==
    /\ pc = "Done"
    /\ N = 3
    /\ RowFailed(1) /\ RowSucceeded(2) /\ RowFailed(3)
    /\ LinesOf("Created", 2) # {}

\* -------------------------------------------------------------------------
\* C8  As stated: a header record followed by k >= 1 data records yields
\*     exactly k rows, the j-th row holding the values of the j-th data
\*     record, each row keyed by the header field names.
\* -------------------------------------------------------------------------
FieldNames(lines) == SplitFields(Head(lines))

\* row holds, under the header's names, the values of the record on line.
RowHolds(row, fieldnames, line) ==
    LET rec == SplitFields(line)
    IN  \A p \in 1..Len(fieldnames) :
            /\ fieldnames[p] \in DOMAIN row
            /\ p <= Len(rec) => row[fieldnames[p]] = rec[p]

HasHeaderAndData ==
    /\ pc \notin { "Start", "ReadInput" }
    /\ csvFile.exists /\ csvFile.readable
    /\ Len(csvFile.lines) >= 2

C8_OneRowPerRecord ==
    HasHeaderAndData =>
        LET records == Tail(csvFile.lines)
            names   == FieldNames(csvFile.lines)
        IN  /\ readResult.ok
            /\ Len(readResult.rows) = Len(records)
            /\ \A j \in 1..Len(records) :
                  /\ RowHolds(readResult.rows[j], names, records[j])
                  /\ DOMAIN readResult.rows[j] = { names[p] : p \in 1..Len(names) }

\* C8  As amended: blank lines are not records.  A header followed by
\*     k >= 1 non-blank data records yields exactly k rows in input order;
\*     every row has every header name as a key, a field missing from a
\*     short record is None, and the surplus values of a long record are
\*     kept under the key None.
IsRecord(line) == line # << >>

C8_OneRowPerNonBlankRecord ==
    LET records == SelectSeq(Tail(csvFile.lines), IsRecord)
        names   == FieldNames(csvFile.lines)
        header  == { names[p] : p \in 1..Len(names) }
    IN  (HasHeaderAndData /\ records # << >>) =>
            /\ readResult.ok
            /\ Len(readResult.rows) = Len(records)
            /\ \A j \in 1..Len(records) :
                  LET row == readResult.rows[j]
                      rec == SplitFields(records[j])
                  IN  /\ RowHolds(row, names, records[j])
                      /\ \A p \in 1..Len(names) : p > Len(rec) => row[names[p]] = PyNone
                      /\ IF Len(rec) > Len(names)
                         THEN /\ DOMAIN row = header \cup { PyNone }
                              /\ row[PyNone] = SubSeq(rec, Len(names) + 1, Len(rec))
                         ELSE DOMAIN row = header

C8_Witness ==
    /\ HasHeaderAndData
    /\ readResult.ok
    /\ Len(csvFile.lines) = 4
    /\ csvFile.lines[3] = << >>
    /\ Len(readResult.rows) = 2
    /\ readResult.rows[1] # readResult.rows[2]

\* -------------------------------------------------------------------------
\* C9  GenerateAll is one in-order pass without retry: each row is rendered
\*     exactly once and opened and written at most once, a row is settled
\*     (its line printed) before the next one is touched, a failed call is
\*     the last call of its row, and the loop always ends in Done.
\* -------------------------------------------------------------------------
OpRank(op) == IF op = "render" THEN 1 ELSE IF op = "open" THEN 2 ELSE 3

C9_InOrderOnce ==
    /\ \A k \in DOMAIN calls : calls[k].row \in 1..N
    /\ pc \in { "GenerateAll", "Done" } =>
          \A r \in 1..N :
             IF r < i
             THEN /\ Cardinality(CallsOf(r, "render")) = 1
                  /\ Cardinality(CallsOf(r, "open")) <= 1
                  /\ Cardinality(CallsOf(r, "write")) <= 1
                  /\ Cardinality(LinesOf("Created", r) \cup LinesOf("RowError", r)) = 1
             ELSE /\ \A k \in DOMAIN calls : calls[k].row # r
                  /\ LinesOf("Created", r) \cup LinesOf("RowError", r) = {}
    /\ \A a, b \in DOMAIN calls :
          a < b =>
             /\ calls[a].row <= calls[b].row
             /\ calls[a].row = calls[b].row =>
                   (calls[a].ok /\ OpRank(calls[a].op) < OpRank(calls[b].op))
    /\ pc = "Done" => i = N + 1

C9_SinglePass ==
    /\ []C9_InOrderOnce
    /\ (pc = "GenerateAll") ~> (pc = "Done")

C9_Witness ==
    /\ pc = "Done"
    /\ N = 3
    /\ RowFailed(1) /\ RowFailed(2) /\ RowSucceeded(3)
    /\ Len(calls) = 5

\* -------------------------------------------------------------------------
\* C10 A row whose render fails leaves the output directory as it was (no
\*     file created, truncated or overwritten) and prints no "Created" line.
\* -------------------------------------------------------------------------
C10_RenderFailureWritesNothing ==
    [][ ( /\ Len(calls') > Len(calls)
          /\ calls'[Len(calls')].op = "render"
          /\ ~calls'[Len(calls')].ok )
        => ( /\ files' = files
             /\ Len(stdout') = Len(stdout) + 1
             /\ stdout'[Len(stdout')].kind = "RowError"
             /\ stdout'[Len(stdout')].idx = calls'[Len(calls')].row ) ]_vars

C10_Witness ==
    /\ calls # << >>
    /\ calls[Len(calls)].op = "render"
    /\ ~calls[Len(calls)].ok
    /\ calls[Len(calls)].row = 2
    /\ ConfigFilename(config_parameters[2], 2) \in DOMAIN files
    /\ files[ConfigFilename(config_parameters[2], 2)].complete
    /\ LastLine.kind = "RowError"

====
